---- MODULE Spec2Model ----
(***************************************************************************)
(* A model of jnp's Notebook class (src/src/jnp/notebook.py).              *)
(*                                                                         *)
(* A text line is a sequence of one-character strings, so that the regular *)
(* expressions, str.replace, str.strip and str(int) of the source are      *)
(* computed character by character.  A cell is a record with the keys the  *)
(* code reads and writes: cell_type, source, outputs, execution_count.     *)
(***************************************************************************)
EXTENDS Integers, Sequences, FiniteSets, TLC

VARIABLES
    data,            \* self.data['cells'] of the Notebook
    head_count,      \* self.head_count
    contents,        \* self.contents
    task_count,      \* self.task_count
    question_count,  \* self.question_count
    output,          \* the list returned by the last direct number_headings call
    view,            \* the Notebook returned by the last student_/teacher_version
    raised,          \* the exception the last call ended with, "none" if it returned
    op,              \* the last call: its name and arguments
    pre,             \* the Notebook's fields when the last call started
    pre_view,        \* the view when the last call started
    trace,           \* one entry per heading number_headings has matched so far
    calls            \* number of calls made on the Notebook

vars == <<data, head_count, contents, task_count, question_count,
          output, view, raised, op, pre, pre_view, trace, calls>>

(***************************************************************************)
(* Bounds of the model.                                                    *)
(***************************************************************************)
MaxCells == 2

MaxCalls == 2

(***************************************************************************)
(* Characters and strings.                                                 *)
(***************************************************************************)
\* what \s matches
WhiteSpace == {" ", "\t", "\n", "\r"}

\* what \d matches
Digits == {"0", "1", "2", "3", "4", "5", "6", "7", "8", "9"}

Min(a, b) == IF a < b THEN a ELSE b

Max(a, b) == IF a < b THEN b ELSE a

\* One past the end of the longest run of characters of S that starts at s[i]:
\* where a greedy S* that starts at i stops.
RunEnd(s, i, S) ==
    CHOOSE j \in i..(Len(s) + 1) :
        /\ \A k \in i..(j - 1) : s[k] \in S
        /\ (j = Len(s) + 1 \/ s[j] \notin S)

\* The same for a negated class [^...]* .
RunEndNot(s, i, S) ==
    CHOOSE j \in i..(Len(s) + 1) :
        /\ \A k \in i..(j - 1) : s[k] \notin S
        /\ (j = Len(s) + 1 \/ s[j] \in S)

\* The literal p occurs in s at position i.
StartsWithAt(s, i, p) ==
    /\ i + Len(p) - 1 <= Len(s)
    /\ \A k \in 1..Len(p) : s[i + k - 1] = p[k]

\* str.replace(old, new): every non-overlapping occurrence, left to right.
RECURSIVE ReplaceFrom(_, _, _, _)
ReplaceFrom(s, i, old, new) ==
    IF i > Len(s) THEN <<>>
    ELSE IF StartsWithAt(s, i, old)
         THEN new \o ReplaceFrom(s, i + Len(old), old, new)
         ELSE <<s[i]>> \o ReplaceFrom(s, i + 1, old, new)

\* An empty old matches before every character and at the end.
RECURSIVE Interleave(_, _)
Interleave(s, new) ==
    IF s = <<>> THEN new ELSE new \o <<Head(s)>> \o Interleave(Tail(s), new)

Replace(s, old, new) ==
    IF old = <<>> THEN Interleave(s, new) ELSE ReplaceFrom(s, 1, old, new)

\* str.strip()
Strip(s) ==
    LET a == RunEnd(s, 1, WhiteSpace)
        b == CHOOSE j \in (a - 1)..Len(s) :
                 /\ \A k \in (j + 1)..Len(s) : s[k] \in WhiteSpace
                 /\ (j = a - 1 \/ s[j] \notin WhiteSpace)
    IN  SubSeq(s, a, b)

DigitChar(d) == <<"0", "1", "2", "3", "4", "5", "6", "7", "8", "9">>[d + 1]

\* str(n) for n >= 0
RECURSIVE Str(_)
Str(n) ==
    IF n < 10 THEN <<DigitChar(n)>>
    ELSE Str(n \div 10) \o <<DigitChar(n % 10)>>

\* sep.join(parts)
RECURSIVE Join(_, _)
Join(parts, sep) ==
    IF parts = <<>> THEN <<>>
    ELSE IF Len(parts) = 1 THEN parts[1]
    ELSE parts[1] \o sep \o Join(Tail(parts), sep)

\* c * n for a string c
RECURSIVE Repeat(_, _)
Repeat(c, n) == IF n <= 0 THEN <<>> ELSE c \o Repeat(c, n - 1)

(***************************************************************************)
(* Notebook.__init__: the defaults of the constructor.                     *)
(***************************************************************************)
num_sep == <<".">>

num_start_at == 1

\* regex = r'\s*(#+)([^<]*)', used with match(): anchored at the line's start.
regex_ws_end(line) == RunEnd(line, 1, WhiteSpace)

regex_hash_end(line) == RunEnd(line, regex_ws_end(line), {"#"})

regex_match(line) == regex_hash_end(line) > regex_ws_end(line)

\* m.groups()[0]
regex_group1(line) == SubSeq(line, regex_ws_end(line), regex_hash_end(line) - 1)

\* m.groups()[1]
regex_group2(line) ==
    SubSeq(line, regex_hash_end(line),
           RunEndNot(line, regex_hash_end(line), {"<"}) - 1)

(***************************************************************************)
(* Notebook.number_headings                                                *)
(***************************************************************************)
\* An increment put at the top level instead of the heading's level.
inc_first(hlevel) == [i \in 1..hlevel |-> IF i = 1 THEN 1 ELSE 0]

\* inc = [0] * (hlevel - 1) + [1]
inc(hlevel) == [i \in 1..hlevel |-> IF i = hlevel THEN 1 ELSE 0]

\* [self.head_count[i] if i < len(self.head_count) else 0 for i, _ in enumerate(inc)]
Pad(hc, increment) ==
    [i \in 1..Len(increment) |-> IF i <= Len(hc) THEN hc[i] ELSE 0]

\* [c + i for c, i in zip(self.head_count, inc)]
ZipAdd(hc, increment) ==
    [i \in 1..Min(Len(hc), Len(increment)) |-> hc[i] + increment[i]]

\* A counter that is incremented at its level and never shortened.
UpdateKeepDeeper(hc, hlevel) ==
    [i \in 1..Max(Len(hc), hlevel) |->
        (IF i <= Len(hc) THEN hc[i] ELSE 0) + (IF i = hlevel THEN 1 ELSE 0)]

\* the two assignments to self.head_count
UpdateHeadCount(hc, hlevel) == ZipAdd(Pad(hc, inc(hlevel)), inc(hlevel))

StrEach(hc) == [i \in 1..Len(hc) |-> Str(hc[i])]

count_str(hc) == Join(StrEach(hc), num_sep)

new_heading(hc, heading) == count_str(hc) \o <<" ">> \o heading

id_str(nh) == Replace(nh, <<" ">>, <<"_">>)

id_anchr(ids) ==
    <<"<", "a", " ", "i", "d", "=", "'">> \o ids \o <<"'", ">", "<", "/", "a", ">">>

\* A bullet indented by the depth instead of the depth minus one.
bullet_deeper(hashes) == Repeat(<<" ", " ">>, Len(hashes)) \o <<"*", " ">>

bullet(hashes) == Repeat(<<" ", " ">>, Len(hashes) - 1) \o <<"*", " ">>

contents_entry(hashes, nh) ==
    bullet(hashes) \o <<"[">> \o nh \o <<"]", "(", "#">> \o id_str(nh) \o <<")">>

heading_line(hashes, nh) ==
    hashes \o <<" ">> \o nh \o id_anchr(id_str(nh))

\* One iteration of the loop over source.  st holds self.head_count,
\* self.contents, the local output and the log of matched headings.
number_headings_line(st, line, scan) ==
    IF regex_match(line)
    THEN LET hashes  == regex_group1(line)
             heading == Strip(regex_group2(line))
             hlevel  == Len(hashes)
             hc      == UpdateHeadCount(st.head_count, hlevel)
             nh      == new_heading(hc, heading)
         IN  [st EXCEPT
                 !.head_count = hc,
                 !.contents   = Append(@, contents_entry(hashes, nh)),
                 !.output     = Append(@, heading_line(hashes, nh)),
                 !.trace      = Append(@, [scan |-> scan, hlevel |-> hlevel,
                                           prev |-> st.head_count, count |-> hc])]
    ELSE [st EXCEPT !.output = Append(@, line)]

RECURSIVE number_headings_from(_, _, _, _)
number_headings_from(st, source, i, scan) ==
    IF i > Len(source) THEN st
    ELSE number_headings_from(number_headings_line(st, source[i], scan),
                              source, i + 1, scan)

number_headings(st, source, scan) ==
    number_headings_from([st EXCEPT !.output = <<>>], source, 1, scan)

(***************************************************************************)
(* Notebook.number_headings_all                                            *)
(***************************************************************************)
\* the iteration without the test of cell_type
number_headings_cell_any_type(st, i, scan) ==
    LET r == number_headings(st, st.cells[i].source, scan)
    IN  [r EXCEPT !.cells[i].source = r.output]

\* the iteration with the counter set back to its start for each cell
number_headings_cell_reset(st, i, scan) ==
    IF st.cells[i].cell_type = "markdown"
    THEN LET r == number_headings([st EXCEPT !.head_count = <<num_start_at - 1>>],
                                  st.cells[i].source, scan)
         IN  [r EXCEPT !.cells[i].source = r.output]
    ELSE st

\* One iteration of the loop over the cells: st.cells is the document.
number_headings_cell(st, i, scan) ==
    IF st.cells[i].cell_type = "markdown"
    THEN LET r == number_headings(st, st.cells[i].source, scan)
         IN  [r EXCEPT !.cells[i].source = r.output]
    ELSE st

RECURSIVE number_headings_all_from(_, _, _)
number_headings_all_from(st, i, scan) ==
    IF i > Len(st.cells) THEN st
    ELSE number_headings_all_from(number_headings_cell(st, i, scan), i + 1, scan)

\* the pass with the counter set back to its start first
number_headings_all_restart(st, scan) ==
    number_headings_all_from([st EXCEPT !.head_count = <<num_start_at - 1>>], 1, scan)

number_headings_all(st, scan) == number_headings_all_from(st, 1, scan)

(***************************************************************************)
(* Notebook._expression_takes_number and Notebook.number_tasks             *)
(***************************************************************************)
Placeholder == <<"<", "n", ">">>

\* task_n_match = re.match('([^<]*)(?:<n>)([^>]*)', expression)
task_n_match(expression) ==
    StartsWithAt(expression, RunEndNot(expression, 1, {"<"}), Placeholder)

\* ''.join(task_n_match.groups())
task_n_groups(expression) ==
    LET a == RunEndNot(expression, 1, {"<"})
        b == a + Len(Placeholder)
    IN  SubSeq(expression, 1, a - 1)
        \o SubSeq(expression, b, RunEndNot(expression, b, {">"}) - 1)

\* A marker that is looked for with its placeholder still in it.
expression_unstripped(expression) ==
    [strexp |-> expression, takes_number |-> task_n_match(expression)]

_expression_takes_number(expression) ==
    IF task_n_match(expression)
    THEN [strexp |-> task_n_groups(expression), takes_number |-> TRUE]
    ELSE [strexp |-> expression, takes_number |-> FALSE]

\* the defaults of number_tasks
task_default == <<"#", "C", "o", "d", "e", " ", "t", "a", "s", "k", "<", "n", ">", "#">>

answer_default ==
    <<"#", "C", "o", "d", "e", " ", "a", "n", "s", "w", "e", "r", "<", "n", ">", "#">>

cell_type_default == {"raw", "code"}

\* re.match(re.escape(marker_id), line)
\* a match of the marker without its last character, the closing '#'
line_is_opening(marker_id, line) ==
    StartsWithAt(line, 1, SubSeq(marker_id, 1, Len(marker_id) - 1))

line_is(marker_id, line) == StartsWithAt(line, 1, marker_id)

\* Both counters incremented, whatever the category.
count_task_both(st, task_type) ==
    [st EXCEPT !.task_count = @ + 1, !.question_count = @ + 1]

\* self.task_count += 1 or self.question_count += 1
count_task(st, task_type) ==
    IF task_type = "code" THEN [st EXCEPT !.task_count = @ + 1]
    ELSE IF task_type = "question" THEN [st EXCEPT !.question_count = @ + 1]
    ELSE st

\* marker.replace(r'<n>', ' ' + str(count)), or the marker itself
numbered_id(marker, task_type, st) ==
    IF task_type = "code"
    THEN Replace(marker, Placeholder, <<" ">> \o Str(st.task_count))
    ELSE IF task_type = "question"
    THEN Replace(marker, Placeholder, <<" ">> \o Str(st.question_count))
    ELSE marker

new_task_id(task, task_type, st) == numbered_id(task, task_type, st)

\* An answer marker that takes the number of the task to come.
new_answer_id_next(answer, task_type, st) ==
    numbered_id(answer, task_type, count_task(st, task_type))

new_answer_id(answer, task_type, st) == numbered_id(answer, task_type, st)

\* One iteration of the loop over the lines of a cell: st holds the
\* counters, the document and the local lines_out; t and a are what
\* _expression_takes_number returned for task and answer.
number_tasks_line(st, line, task, answer, task_type, t, a) ==
    LET line_is_task == line_is(t.strexp, line)
        s1 == IF line_is_task THEN count_task(st, task_type) ELSE st
        l1 == IF line_is_task /\ t.takes_number
              THEN Replace(line, t.strexp, new_task_id(task, task_type, s1))
              ELSE line
        line_is_answer == line_is(a.strexp, l1)
        l2 == IF line_is_answer /\ a.takes_number
              THEN Replace(l1, a.strexp, new_answer_id(answer, task_type, s1))
              ELSE l1
    IN  [s1 EXCEPT !.lines_out = Append(@, l2)]

RECURSIVE number_tasks_lines(_, _, _, _, _, _, _, _)
number_tasks_lines(st, source, j, task, answer, task_type, t, a) ==
    IF j > Len(source) THEN st
    ELSE number_tasks_lines(
             number_tasks_line(st, source[j], task, answer, task_type, t, a),
             source, j + 1, task, answer, task_type, t, a)

number_tasks_cell(st, i, task, answer, task_type, cell_type, t, a) ==
    IF st.cells[i].cell_type \in cell_type
    THEN LET r == number_tasks_lines([st EXCEPT !.lines_out = <<>>],
                                     st.cells[i].source, 1, task, answer, task_type, t, a)
         IN  [r EXCEPT !.cells[i].source = r.lines_out]
    ELSE st

RECURSIVE number_tasks_from(_, _, _, _, _, _, _, _)
number_tasks_from(st, i, task, answer, task_type, cell_type, t, a) ==
    IF i > Len(st.cells) THEN st
    ELSE number_tasks_from(
             number_tasks_cell(st, i, task, answer, task_type, cell_type, t, a),
             i + 1, task, answer, task_type, cell_type, t, a)

number_tasks(st, task, answer, task_type, cell_type) ==
    number_tasks_from(st, 1, task, answer, task_type, cell_type,
                      _expression_takes_number(task),
                      _expression_takes_number(answer))

(***************************************************************************)
(* Notebook.insert_contents                                                *)
(***************************************************************************)
NL == <<"\n">>

ContentsWord == <<"C", "o", "n", "t", "e", "n", "t", "s">>

\* the pattern with .* for [^C]*: 'Contents' anywhere after the hashes
contents_match_anywhere(line) ==
    LET a == RunEnd(line, 1, WhiteSpace)
        b == RunEnd(line, a, {"#"})
        c == RunEnd(line, b, WhiteSpace)
    IN  /\ b > a
        /\ c > b
        /\ \E p \in c..Len(line) : StartsWithAt(line, p, ContentsWord)

\* re.match(r'\s*#+\s+[^C]*Contents', line): [^C]* stops at the first 'C'
\* after the blanks, where 'Contents' has to start.
contents_match(line) ==
    LET a == RunEnd(line, 1, WhiteSpace)
        b == RunEnd(line, a, {"#"})
        c == RunEnd(line, b, WhiteSpace)
    IN  /\ b > a
        /\ c > b
        /\ StartsWithAt(line, RunEndNot(line, c, {"C"}), ContentsWord)

\* item + '\n' for item in self.contents
items_out(items) == [k \in 1..Len(items) |-> items[k] \o NL]

\* what follows the inserted list: a newline and the heading again, or nothing
after_items(line, overwrite) == IF overwrite THEN <<>> ELSE <<NL, line>>

\* A loop over the lines that is never left early.
done_with_cell_never(overwrite) == FALSE

\* the break of the inner loop
done_with_cell(overwrite) == overwrite

\* The loop over the lines of one markdown cell, from line j on: st holds
\* the local out, contents_found and whether the loop was left.
RECURSIVE insert_contents_lines(_, _, _, _, _)
insert_contents_lines(st, source, j, items, overwrite) ==
    IF j > Len(source) \/ st.stopped THEN st
    ELSE insert_contents_lines(
             IF contents_match(source[j])
             THEN [out |-> st.out \o <<source[j], NL>> \o items_out(items)
                              \o after_items(source[j], overwrite),
                   contents_found |-> TRUE,
                   stopped |-> done_with_cell(overwrite)]
             ELSE [st EXCEPT !.out = Append(@, source[j])],
             source, j + 1, items, overwrite)

\* The loop over the cells, from cell i on.
RECURSIVE insert_contents_from(_, _, _, _, _)
insert_contents_from(cells, i, contents_found, items, overwrite) ==
    IF i > Len(cells) \/ contents_found THEN cells
    ELSE IF cells[i].cell_type = "markdown"
         THEN LET r == insert_contents_lines(
                           [out |-> <<>>, contents_found |-> contents_found,
                            stopped |-> FALSE],
                           cells[i].source, 1, items, overwrite)
              IN  insert_contents_from([cells EXCEPT ![i].source = r.out], i + 1,
                                       r.contents_found, items, overwrite)
         ELSE insert_contents_from(cells, i + 1, contents_found, items, overwrite)

\* arg.given is FALSE for contents=None.  self.contents is a list from
\* __init__ on, so the early return on None is never taken.
insert_contents(st, arg, overwrite) ==
    LET items == IF arg.given THEN arg.value ELSE st.contents
    IN  [st EXCEPT !.contents = items,
                   !.cells = insert_contents_from(st.cells, 1, FALSE, items, overwrite)]

(***************************************************************************)
(* Notebook.copy, Notebook.student_version, Notebook.teacher_version       *)
(***************************************************************************)
\* a copy of the list only: its cells are the original's objects
copy_list_only(cells) == [cells |-> cells, obj |-> [i \in 1..Len(cells) |-> i]]

\* deepcopy(self.data): every cell of the copy is a new object, equal in value
\* to the original's.  obj[i] names the cell of the original that cell i of
\* the copy is the same object as, 0 when it is an object of its own.
deepcopy(cells) == [cells |-> cells, obj |-> [i \in 1..Len(cells) |-> 0]]

\* new = Notebook(); new.data = deepcopy(self.data)
copy(nb) ==
    LET d == deepcopy(nb.cells)
    IN  [nb |-> [cells |-> d.cells, head_count |-> <<num_start_at - 1>>,
                 contents |-> <<>>, task_count |-> 0, question_count |-> 0],
         obj |-> d.obj]

\* re.match(r'\*\*A:\s*\d*\*\*', firstline): where the match ends, 0 for None
answer_md_end(firstline) ==
    LET a == RunEnd(firstline, 5, WhiteSpace)
        b == RunEnd(firstline, a, Digits)
    IN  IF /\ StartsWithAt(firstline, 1, <<"*", "*", "A", ":">>)
           /\ StartsWithAt(firstline, b, <<"*", "*">>)
        THEN b + 1 ELSE 0

\* re.match(marker + r'\s*\d*#', firstline) for the literal marker
code_marker_match(marker, firstline) ==
    LET a == RunEnd(firstline, Len(marker) + 1, WhiteSpace)
        b == RunEnd(firstline, a, Digits)
    IN  /\ StartsWithAt(firstline, 1, marker)
        /\ StartsWithAt(firstline, b, <<"#">>)

CodeAnswer == <<"#", "C", "o", "d", "e", " ", "a", "n", "s", "w", "e", "r">>

\* the answer marker where the task marker belongs
CodeTaskIsAnswer == CodeAnswer

CodeTask == <<"#", "C", "o", "d", "e", " ", "t", "a", "s", "k">>

YourAnswerHere ==
    <<" ", "Y", "o", "u", "r", " ", "a", "n", "s", "w", "e", "r", " ", "h", "e", "r", "e">>

\* the cell with its type left as it is
keep_type(cell) == cell

\* cell['cell_type'] = 'code'; cell['outputs'] = []; cell['execution_count'] = None
raw_to_code(cell) ==
    IF cell.cell_type = "raw"
    THEN [cell_type |-> "code", source |-> cell.source,
          outputs |-> <<>>, execution_count |-> "None"]
    ELSE cell

\* cell['source'][0] if cell['source'] else ''
firstline_or_empty(cell) == IF cell.source # <<>> THEN cell.source[1] ELSE <<>>

\* The loop of student_version over the cells of the copy, from cell i on.
\* st.cells_out is the list the loop builds and st.obj_out the objects its
\* cells are; st.written holds every cell of the copy visited so far as the
\* loop's assignments left it; st.raised names the exception that ended the loop.
RECURSIVE student_cells(_, _, _, _)
student_cells(st, cells, obj, i) ==
    IF i > Len(cells) \/ st.raised # "none" THEN st
    ELSE LET cell == cells[i]
         IN  IF cell.cell_type = "markdown"
             THEN IF cell.source = <<>>
                  THEN [st EXCEPT !.raised = "IndexError"]   \* cell['source'][0]
                  ELSE LET e == answer_md_end(cell.source[1])
                           c == IF e > 0
                                THEN [cell EXCEPT !.source =
                                         <<SubSeq(cell.source[1], 1, e), YourAnswerHere>>]
                                ELSE cell
                       IN  student_cells(
                               [st EXCEPT !.cells_out = Append(@, c),
                                          !.obj_out = Append(@, obj[i]),
                                          !.written = Append(@, c)],
                               cells, obj, i + 1)
             ELSE LET c == raw_to_code(cell)
                  IN  student_cells(
                          IF code_marker_match(CodeAnswer, firstline_or_empty(c))
                          THEN [st EXCEPT !.written = Append(@, c)]
                          ELSE [st EXCEPT !.cells_out = Append(@, c),
                                          !.obj_out = Append(@, obj[i]),
                                          !.written = Append(@, c)],
                          cells, obj, i + 1)

\* the cells of the copy after the loop: those visited as written, the rest as copied
after_loop(written, cells) == written \o SubSeq(cells, Len(written) + 1, Len(cells))

student_version(nb) ==
    LET student == copy(nb)
        r == student_cells([cells_out |-> <<>>, obj_out |-> <<>>, written |-> <<>>,
                            raised |-> "none"],
                           student.nb.cells, student.obj, 1)
    IN  [raised |-> r.raised, nb |-> [student.nb EXCEPT !.cells = r.cells_out],
         obj |-> r.obj_out, copied |-> after_loop(r.written, student.nb.cells),
         copied_obj |-> student.obj]

\* The loop of teacher_version over the cells of the copy, from cell i on.
RECURSIVE teacher_cells(_, _, _, _)
teacher_cells(st, cells, obj, i) ==
    IF i > Len(cells) THEN st
    ELSE LET cell == cells[i]
         IN  IF cell.cell_type = "markdown"
             THEN teacher_cells(
                      [st EXCEPT !.cells_out = Append(@, cell),
                                 !.obj_out = Append(@, obj[i]),
                                 !.written = Append(@, cell)],
                      cells, obj, i + 1)
             ELSE LET c == raw_to_code(cell)
                  IN  teacher_cells(
                          IF code_marker_match(CodeTask, firstline_or_empty(c))
                          THEN [st EXCEPT !.written = Append(@, c)]
                          ELSE [st EXCEPT !.cells_out = Append(@, c),
                                          !.obj_out = Append(@, obj[i]),
                                          !.written = Append(@, c)],
                          cells, obj, i + 1)

teacher_version(nb) ==
    LET teacher == copy(nb)
        r == teacher_cells([cells_out |-> <<>>, obj_out |-> <<>>, written |-> <<>>],
                           teacher.nb.cells, teacher.obj, 1)
    IN  [raised |-> "none", nb |-> [teacher.nb EXCEPT !.cells = r.cells_out],
         obj |-> r.obj_out, copied |-> after_loop(r.written, teacher.nb.cells),
         copied_obj |-> teacher.obj]

(***************************************************************************)
(* The documents the model reads.  A cell is a record with the keys of the *)
(* notebook format: a markdown or raw cell has no outputs and no           *)
(* execution_count key.                                                    *)
(***************************************************************************)
Markdown(source) == [cell_type |-> "markdown", source |-> source]

Raw(source) == [cell_type |-> "raw", source |-> source]

Code(source) ==
    [cell_type |-> "code", source |-> source,
     outputs |-> <<"out">>, execution_count |-> "1"]

H1 == <<"#", " ", "A">>

H2 == <<"#", "#", " ", "B", "\n">>

H3 == <<"#", "#", "#", " ", "C">>

\* leading blank, and a tag after the heading text
HTag == <<" ", "#", " ", "D", " ", "<", "b", ">">>

Txt == <<"t", "e", "x", "t", "\n">>

TaskLine == <<"#", "C", "o", "d", "e", " ", "t", "a", "s", "k", "#">>

\* a task marker with text after it
TaskLineMore == TaskLine \o <<" ", "x", "\n">>

AnswerLine == <<"#", "C", "o", "d", "e", " ", "a", "n", "s", "w", "e", "r", "#">>

\* '#Code task 1#' and '#Code answer 1#'
NumberedTaskLine == <<"#", "C", "o", "d", "e", " ", "t", "a", "s", "k", " ", "1", "#">>

NumberedAnswerLine ==
    <<"#", "C", "o", "d", "e", " ", "a", "n", "s", "w", "e", "r", " ", "1", "#">>

Stmt == <<"p", "r", "i", "n", "t", "(", "1", ")">>

TaskCells ==
    { Code(<<TaskLine, Stmt>>), Raw(<<TaskLineMore>>), Code(<<AnswerLine, Stmt>>),
      Code(<<Stmt, TaskLine, AnswerLine>>), Code(<<task_default, Stmt>>),
      Markdown(<<TaskLine, AnswerLine>>), Raw(<<>>) }

TaskTypes == {"code", "question", "other"}

ContentsHeading == <<"#", " ", "1", " ">> \o ContentsWord

\* a Contents heading of depth 2 that ends with a newline
ContentsHeading2 == <<"#", "#", " ">> \o ContentsWord \o NL

\* a heading with a 'C' before the word: [^C]* cannot reach 'Contents'
ChapterHeading == <<"#", " ", "C", "h", " ">> \o ContentsWord

OldItem1 == <<"o", "l", "d", " ", "i", "t", "e", "m", " ", "1">>

OldItem2 == <<"o", "l", "d", " ", "i", "t", "e", "m", " ", "2">>

\* '* [1 Intro](#1_Intro)'
IntroEntry ==
    <<"*", " ", "[", "1", " ", "I", "n", "t", "r", "o", "]",
      "(", "#", "1", "_", "I", "n", "t", "r", "o", ")">>

ContentsCells ==
    { Markdown(<<ContentsHeading, OldItem1, OldItem2>>),
      Markdown(<<Txt, ContentsHeading2, OldItem1>>),
      Markdown(<<ContentsHeading, ContentsHeading2>>),
      Markdown(<<ChapterHeading, H1>>),
      Code(<<ContentsHeading>>) }

\* contents=None and contents=['* [1 Intro](#1_Intro)']
ContentsArgs ==
    { [given |-> FALSE, value |-> <<>>], [given |-> TRUE, value |-> <<IntroEntry>>] }

\* '**A: 1** some text'
AnswerMd ==
    <<"*", "*", "A", ":", " ", "1", "*", "*", " ", "s", "o", "m", "e", " ",
      "t", "e", "x", "t">>

ViewCells ==
    { Markdown(<<AnswerMd>>), Markdown(<<Txt, AnswerMd>>), Markdown(<<>>),
      Raw(<<>>), Code(<<>>),
      Code(<<NumberedAnswerLine, Stmt>>), Raw(<<NumberedTaskLine>>),
      Raw(<<AnswerLine>>), Code(<<Stmt, TaskLine>>), Code(<<TaskLine, Stmt>>) }

HeadingCells ==
    { Markdown(<<H1>>), Markdown(<<H2, H1>>), Markdown(<<H3>>),
      Markdown(<<H3, H2>>), Markdown(<<Txt, HTag>>), Markdown(<<Txt>>),
      Code(<<H1>>) }

\* the sources number_headings is called on directly
HeadingSources == { <<H2, Txt>>, <<H3>> }

\* every sequence of at most n cells of S
RECURSIVE DocsOf(_, _)
DocsOf(S, n) ==
    IF n = 0 THEN { <<>> }
    ELSE LET shorter == DocsOf(S, n - 1)
         IN  shorter \cup { Append(d, c) : d \in { x \in shorter : Len(x) = n - 1 }, c \in S }

(***************************************************************************)
(* State.                                                                  *)
(***************************************************************************)
\* the fields __init__ sets
Fresh(cells) ==
    [cells |-> cells, head_count |-> <<num_start_at - 1>>, contents |-> <<>>,
     task_count |-> 0, question_count |-> 0]

Self ==
    [cells |-> data, head_count |-> head_count, contents |-> contents,
     task_count |-> task_count, question_count |-> question_count]

NoView == [made |-> FALSE, nb |-> Fresh(<<>>), obj |-> <<>>]

\* The cells of one Notebook after the cells `written` of another, whose
\* cell j is the object obj[j] of the first, were assigned to in place.
WriteThrough(cells, obj, written) ==
    [i \in 1..Len(cells) |->
        IF \E j \in 1..Len(obj) : obj[j] = i
        THEN written[CHOOSE j \in 1..Len(obj) : obj[j] = i]
        ELSE cells[i]]

\* The view after the Notebook's cells were assigned to in place.
Seen(v, cells) ==
    [v EXCEPT !.nb.cells =
        [j \in 1..Len(v.obj) |-> IF v.obj[j] = 0 THEN @[j] ELSE cells[v.obj[j]]]]

InitWith(Cells) ==
    /\ data \in DocsOf(Cells, MaxCells)
    /\ head_count = <<num_start_at - 1>>
    /\ contents = <<>>
    /\ task_count = 0
    /\ question_count = 0
    /\ output = <<>>
    /\ view = NoView
    /\ raised = "none"
    /\ op = [name |-> "init"]
    /\ pre = Fresh(data)
    /\ pre_view = NoView
    /\ trace = <<>>
    /\ calls = 0

\* what every call records
Called(o) ==
    /\ calls < MaxCalls
    /\ calls' = calls + 1
    /\ op' = o
    /\ pre' = Self
    /\ pre_view' = view

NumberHeadingsAll ==
    /\ Called([name |-> "number_headings_all"])
    /\ LET r == number_headings_all(
                    [cells |-> data, head_count |-> head_count, contents |-> contents,
                     output |-> <<>>, trace |-> trace], calls + 1)
       IN  /\ data' = r.cells
           /\ head_count' = r.head_count
           /\ contents' = r.contents
           /\ trace' = r.trace
           /\ view' = Seen(view, r.cells)
    /\ raised' = "none"
    /\ UNCHANGED <<task_count, question_count, output>>

NumberHeadings(source) ==
    /\ Called([name |-> "number_headings", source |-> source])
    /\ LET r == number_headings(
                    [cells |-> data, head_count |-> head_count, contents |-> contents,
                     output |-> <<>>, trace |-> trace], source, calls + 1)
       IN  /\ output' = r.output
           /\ head_count' = r.head_count
           /\ contents' = r.contents
           /\ trace' = r.trace
    /\ raised' = "none"
    /\ UNCHANGED <<data, task_count, question_count, view>>

\* number_tasks(task_type=...), the other arguments left to their defaults.
\* The final print of the count changes nothing and is left out.
NumberTasks(task_type) ==
    /\ Called([name |-> "number_tasks", task_type |-> task_type])
    /\ LET r == number_tasks(
                    [cells |-> data, task_count |-> task_count,
                     question_count |-> question_count, lines_out |-> <<>>],
                    task_default, answer_default, task_type, cell_type_default)
       IN  /\ data' = r.cells
           /\ task_count' = r.task_count
           /\ question_count' = r.question_count
           /\ view' = Seen(view, r.cells)
    /\ raised' = "none"
    /\ UNCHANGED <<head_count, contents, output, trace>>

InsertContents(arg, overwrite) ==
    /\ Called([name |-> "insert_contents", contents |-> arg, overwrite |-> overwrite])
    /\ LET r == insert_contents(Self, arg, overwrite)
       IN  /\ data' = r.cells
           /\ contents' = r.contents
           /\ view' = Seen(view, r.cells)
    /\ raised' = "none"
    /\ UNCHANGED <<head_count, task_count, question_count, output, trace>>

\* student_version and teacher_version assign to the cells of the copy only.
\* A call that raises returns nothing.
StudentVersion ==
    /\ Called([name |-> "student_version"])
    /\ LET r == student_version(Self)
       IN  /\ raised' = r.raised
           /\ data' = WriteThrough(data, r.copied_obj, r.copied)
           /\ view' = IF r.raised = "none"
                      THEN [made |-> TRUE, nb |-> r.nb, obj |-> r.obj]
                      ELSE Seen(view, WriteThrough(data, r.copied_obj, r.copied))
    /\ UNCHANGED <<head_count, contents, task_count, question_count, output, trace>>

TeacherVersion ==
    /\ Called([name |-> "teacher_version"])
    /\ LET r == teacher_version(Self)
       IN  /\ raised' = r.raised
           /\ data' = WriteThrough(data, r.copied_obj, r.copied)
           /\ view' = [made |-> TRUE, nb |-> r.nb, obj |-> r.obj]
    /\ UNCHANGED <<head_count, contents, task_count, question_count, output, trace>>

\* number_tasks() called on the Notebook the last view call returned
ViewNumberTasks ==
    /\ view.made
    /\ Called([name |-> "view.number_tasks", task_type |-> "code"])
    /\ LET r == number_tasks(
                    [cells |-> view.nb.cells, task_count |-> view.nb.task_count,
                     question_count |-> view.nb.question_count, lines_out |-> <<>>],
                    task_default, answer_default, "code", cell_type_default)
       IN  /\ view' = [view EXCEPT !.nb.cells = r.cells,
                                   !.nb.task_count = r.task_count,
                                   !.nb.question_count = r.question_count]
           /\ data' = WriteThrough(data, view.obj, r.cells)
    /\ raised' = "none"
    /\ UNCHANGED <<head_count, contents, task_count, question_count, output, trace>>

InitHeadings == InitWith(HeadingCells)

NextHeadings ==
    \/ NumberHeadingsAll
    \/ \E source \in HeadingSources : NumberHeadings(source)

SpecHeadings == InitHeadings /\ [][NextHeadings]_vars

(***************************************************************************)
(* Properties of number_headings and number_headings_all.                  *)
(***************************************************************************)
TraceIdx == 1..Len(trace)

\* trace[k] is the first heading of its depth after trace[j]
NextAtDepth(j, k) ==
    /\ j < k
    /\ \A m \in (j + 1)..(k - 1) : trace[m].hlevel # trace[k].hlevel

\* C1: when a heading of depth d is numbered after a deeper heading of depth
\* d2 > d, the next heading numbered at depth d2 has 1 as its component d2,
\* whatever that component was before and whatever lies in between.
C1_DepthTruncation ==
    \A i, j, k \in TraceIdx :
        ( /\ i < j
          /\ trace[j].hlevel < trace[i].hlevel
          /\ trace[k].hlevel = trace[i].hlevel
          /\ NextAtDepth(j, k) )
        => trace[k].count[trace[k].hlevel] = 1

\* C1 witness: the deeper counter had reached 2, a heading of a third depth
\* lies in between, and the counter restarted at 1.
C1_Witness ==
    \E i, j, m, k \in TraceIdx :
        /\ i < j /\ j < m /\ m < k
        /\ trace[j].hlevel < trace[i].hlevel
        /\ trace[k].hlevel = trace[i].hlevel
        /\ trace[m].hlevel > trace[k].hlevel
        /\ NextAtDepth(j, k)
        /\ trace[i].count[trace[i].hlevel] = 2
        /\ trace[k].count[trace[k].hlevel] = 1

\* C2: a heading of depth d turns the counter c into a counter of length d
\* whose component i < d is c[i] (0 where c has none) and whose component d
\* is c[d] + 1 (1 where c has none); the counter the next heading starts
\* from is the one this heading left.
C2_CounterUpdate ==
    /\ \A k \in TraceIdx :
          LET d == trace[k].hlevel
              c == trace[k].prev
              n == trace[k].count
          IN  /\ Len(n) = d
              /\ \A i \in 1..(d - 1) : n[i] = IF i <= Len(c) THEN c[i] ELSE 0
              /\ n[d] = IF d <= Len(c) THEN c[d] + 1 ELSE 1
              /\ c = IF k = 1 THEN <<num_start_at - 1>> ELSE trace[k - 1].count
    /\ trace # <<>> => head_count = trace[Len(trace)].count

\* C2 witness: a depth-1 heading after a depth-3 heading gives the
\* one-element counter that continues the top-level count.
C2_Witness ==
    \E k \in TraceIdx :
        /\ trace[k].hlevel = 1
        /\ Len(trace[k].prev) = 3
        /\ trace[k].prev[1] >= 1
        /\ trace[k].count = <<trace[k].prev[1] + 1>>

\* the deepest heading among trace[1..k] that belongs to the scan of trace[k]
DeepestInScan(k) ==
    CHOOSE d \in { trace[j].hlevel : j \in 1..k } :
        /\ \E j \in 1..k : trace[j].scan = trace[k].scan /\ trace[j].hlevel = d
        /\ \A j \in 1..k : trace[j].scan = trace[k].scan => trace[j].hlevel <= d

\* C3 as stated: after every heading processed, the length of head_count is
\* the deepest heading level seen so far in that scan.
C3_LengthIsDeepest ==
    \A k \in TraceIdx : Len(trace[k].count) = DeepestInScan(k)

\* C3 amended: after every heading processed, the length of head_count is
\* the depth of that heading (of the most recent heading), which is smaller
\* than the deepest level seen once a shallower heading follows a deeper one.
C3_LengthIsLatestDepth ==
    /\ \A k \in TraceIdx : Len(trace[k].count) = trace[k].hlevel
    /\ Len(head_count) = IF trace = <<>> THEN 1 ELSE trace[Len(trace)].hlevel

\* C3 witness: the last heading of a scan is shallower than an earlier one of
\* the same scan, and head_count has the length of the last.
C3_Witness ==
    \E j, k \in TraceIdx :
        /\ j < k /\ k = Len(trace)
        /\ trace[j].scan = trace[k].scan
        /\ trace[j].hlevel > trace[k].hlevel
        /\ Len(head_count) = trace[k].hlevel

\* the places <<cell, line>> of the heading lines of the markdown cells, in
\* document order
RECURSIVE HeadingPlacesFrom(_, _, _)
HeadingPlacesFrom(cells, ci, li) ==
    IF ci > Len(cells) THEN <<>>
    ELSE IF cells[ci].cell_type # "markdown" \/ li > Len(cells[ci].source)
         THEN HeadingPlacesFrom(cells, ci + 1, 1)
         ELSE (IF regex_match(cells[ci].source[li]) THEN << <<ci, li>> >> ELSE <<>>)
              \o HeadingPlacesFrom(cells, ci, li + 1)

HeadingPlaces(cells) == HeadingPlacesFrom(cells, 1, 1)

\* the number written into a numbered heading line: what follows the
\* hashes and one blank, up to the next blank
NumberOf(line) ==
    LET a == regex_hash_end(line) + 1
    IN  SubSeq(line, a, RunEnd(line, a, Digits \cup {"."}) - 1)

\* C4: a number_headings_all pass appends one entry per heading line of the
\* markdown cells, in document order, and keeps the entries already there;
\* the entry of a heading of depth d starts with 2*(d-1) blanks and '* ', and
\* its link text and its anchor start with the number written into the line.
C4_TocAccumulation ==
    op.name = "number_headings_all" =>
        LET hs == HeadingPlaces(pre.cells)
            n0 == Len(pre.contents)
        IN  /\ Len(contents) = n0 + Len(hs)
            /\ SubSeq(contents, 1, n0) = pre.contents
            /\ \A k \in 1..Len(hs) :
                  LET was == pre.cells[hs[k][1]].source[hs[k][2]]
                      now == data[hs[k][1]].source[hs[k][2]]
                      e   == contents[n0 + k]
                      d   == regex_hash_end(was) - regex_ws_end(was)
                      sp  == RunEnd(e, 1, {" "}) - 1
                      num == NumberOf(now)
                  IN  /\ sp = 2 * (d - 1)
                      /\ StartsWithAt(e, sp + 1, <<"*", " ", "[">> \o num \o <<" ">>)
                      /\ num # <<>>
                      /\ \E p \in 1..Len(e) :
                            StartsWithAt(e, p, <<"]", "(", "#">> \o num \o <<"_">>)
                      /\ e[Len(e)] = ")"

\* C4 witness: a pass over two markdown cells with headings of several
\* depths, on a Notebook that already had an entry.
C4_Witness ==
    /\ op.name = "number_headings_all"
    /\ pre.contents # <<>>
    /\ Len(contents) >= Len(pre.contents) + 3
    /\ \A i \in 1..Len(data) : data[i].cell_type = "markdown"
    /\ Len(HeadingPlaces(pre.cells)) >= 3
    /\ HeadingPlaces(pre.cells)[1][1] # HeadingPlaces(pre.cells)[3][1]
    /\ StartsWithAt(contents[Len(contents)], 1, <<" ", " ", "*", " ", "[">>)

\* optional white space, then a hash: the lines the heading pattern matches
IsHeadingLine(line) ==
    \E k \in 1..Len(line) : line[k] = "#" /\ \A i \in 1..(k - 1) : line[i] \in WhiteSpace

\* `after` has the lines of `before`, those that are no heading as they were
SameButHeadings(before, after) ==
    /\ Len(after) = Len(before)
    /\ \A i \in 1..Len(before) : ~IsHeadingLine(before[i]) => after[i] = before[i]

\* C14: number_headings returns as many lines as it was given, every line
\* that is no heading as it was; number_headings_all does the same to the
\* source of every markdown cell, changes no raw or code cell, and on a
\* document whose markdown cells have no heading line leaves the document,
\* head_count and the contents list as they were.
C14_HeadingsFrame ==
    /\ op.name = "number_headings" => SameButHeadings(op.source, output)
    /\ op.name = "number_headings_all" =>
          /\ Len(data) = Len(pre.cells)
          /\ \A i \in 1..Len(pre.cells) :
                IF pre.cells[i].cell_type = "markdown"
                THEN /\ data[i].cell_type = "markdown"
                     /\ SameButHeadings(pre.cells[i].source, data[i].source)
                ELSE data[i] = pre.cells[i]
          /\ (\A i \in 1..Len(pre.cells) :
                 pre.cells[i].cell_type = "markdown" =>
                     \A k \in 1..Len(pre.cells[i].source) :
                         ~IsHeadingLine(pre.cells[i].source[k]))
             => Self = pre

\* a pass over a markdown cell with a text line and a heading line and a
\* code cell with a line of the heading pattern: the heading is rewritten,
\* the text line and the code cell are not
C14_Witness ==
    /\ op.name = "number_headings_all"
    /\ Len(pre.cells) = 2
    /\ pre.cells[1].cell_type = "markdown"
    /\ \E k \in 1..Len(pre.cells[1].source) :
          /\ IsHeadingLine(pre.cells[1].source[k])
          /\ data[1].source[k] # pre.cells[1].source[k]
    /\ \E k \in 1..Len(pre.cells[1].source) : ~IsHeadingLine(pre.cells[1].source[k])
    /\ pre.cells[2].cell_type = "code"
    /\ IsHeadingLine(pre.cells[2].source[1])
    /\ data[2] = pre.cells[2]

\* a heading line number_headings has written: it has a number and an anchor
AlreadyNumbered(line) ==
    /\ IsHeadingLine(line)
    /\ NumberOf(line) # <<>>
    /\ \E p \in 1..Len(line) : StartsWithAt(line, p, <<"<", "a", " ", "i", "d", "=", "'">>)

\* the heading lines of the markdown cells
HeadingLines(cells) ==
    LET hs == HeadingPlaces(cells)
    IN  [k \in 1..Len(hs) |-> cells[hs[k][1]].source[hs[k][2]]]

\* C20: a second number_headings_all call, on a document whose heading
\* lines the first call has numbered, matches each of them again: the
\* counter goes on from what the first call left, each line gets the new
\* number in front of the old one, and the contents list gets one more
\* entry per heading and then holds two for each heading.
C20_SecondPassRenumbers ==
    (/\ op.name = "number_headings_all" /\ calls = 2
     /\ HeadingPlaces(pre.cells) # <<>>
     /\ \A k \in 1..Len(HeadingPlaces(pre.cells)) :
           AlreadyNumbered(HeadingLines(pre.cells)[k]))
    => LET was == HeadingLines(pre.cells)
           now == HeadingLines(data)
           n   == Len(was)
           t0  == Len(trace) - n
       IN  /\ Len(now) = n
           /\ Len(contents) = Len(pre.contents) + n
           /\ Len(contents) = 2 * n
           /\ trace[t0 + 1].prev = pre.head_count
           /\ \A k \in 1..n :
                 LET new == NumberOf(now[k])
                     a   == regex_hash_end(now[k]) + 1
                 IN  /\ now[k] # was[k]
                     /\ new = count_str(trace[t0 + k].count)
                     /\ StartsWithAt(now[k], a + Len(new),
                                     <<" ">> \o NumberOf(was[k]) \o <<" ">>)

\* a second pass over headings of two depths: the first component of the
\* counter has gone on and the list holds two entries for each heading
C20_Witness ==
    /\ op.name = "number_headings_all" /\ calls = 2
    /\ Len(HeadingPlaces(pre.cells)) >= 2
    /\ \A k \in 1..Len(HeadingPlaces(pre.cells)) :
          AlreadyNumbered(HeadingLines(pre.cells)[k])
    /\ \E j, k \in 1..Len(trace) : trace[j].hlevel # trace[k].hlevel
    /\ Len(contents) = 2 * Len(HeadingPlaces(data))
    /\ data # pre.cells
    /\ head_count[1] > pre.head_count[1]

(***************************************************************************)
(* Properties of number_tasks.                                             *)
(***************************************************************************)
\* the places <<cell, line>> of the lines of raw and code cells that start
\* with marker, in document order
RECURSIVE MarkerPlacesFrom(_, _, _, _)
MarkerPlacesFrom(cells, marker, ci, li) ==
    IF ci > Len(cells) THEN <<>>
    ELSE IF cells[ci].cell_type \notin {"raw", "code"} \/ li > Len(cells[ci].source)
         THEN MarkerPlacesFrom(cells, marker, ci + 1, 1)
         ELSE (IF StartsWithAt(cells[ci].source[li], 1, marker)
               THEN << <<ci, li>> >> ELSE <<>>)
              \o MarkerPlacesFrom(cells, marker, ci, li + 1)

MarkerPlaces(cells, marker) == MarkerPlacesFrom(cells, marker, 1, 1)

LineAt(cells, place) == cells[place[1]].source[place[2]]

\* place p comes before place q in document order
Before(p, q) == p[1] < q[1] \/ (p[1] = q[1] /\ p[2] < q[2])

\* '#Code task k#' and '#Code answer k#'
NumberedTask(k) ==
    <<"#", "C", "o", "d", "e", " ", "t", "a", "s", "k", " ">> \o Str(k) \o <<"#">>

NumberedAnswer(k) ==
    <<"#", "C", "o", "d", "e", " ", "a", "n", "s", "w", "e", "r", " ">>
    \o Str(k) \o <<"#">>

FreshCounters == pre.task_count = 0 /\ pre.question_count = 0

\* C5: on a fresh Notebook, number_tasks with task_type 'code' makes the
\* k-th line of the raw and code cells that starts with '#Code task#' start
\* with '#Code task k#'; task_count ends as the number of such lines,
\* question_count stays 0 and markdown cells are neither changed nor counted.
C5_TaskNumbering ==
    (op.name = "number_tasks" /\ op.task_type = "code" /\ FreshCounters) =>
        LET ts == MarkerPlaces(pre.cells, TaskLine)
        IN  /\ \A k \in 1..Len(ts) :
                  StartsWithAt(LineAt(data, ts[k]), 1, NumberedTask(k))
            /\ task_count = Len(ts)
            /\ question_count = 0
            /\ Len(data) = Len(pre.cells)
            /\ \A i \in 1..Len(data) :
                  pre.cells[i].cell_type = "markdown" => data[i] = pre.cells[i]

\* C5 witness: two task lines in two cells were numbered 1 and 2.
C5_Witness ==
    /\ op.name = "number_tasks" /\ op.task_type = "code" /\ FreshCounters
    /\ task_count = 2
    /\ LET ts == MarkerPlaces(pre.cells, TaskLine)
       IN  /\ ts[1][1] # ts[2][1]
           /\ StartsWithAt(LineAt(data, ts[2]), 1, NumberedTask(2))

\* C6 as stated: an eligible line that is the task template with its '<n>'
\* token is counted and gets the token replaced by ' ' and the count;
\* ['#Code task<n>#', 'print(1)'] ends with task_count = 1 and
\* '#Code task 1#'.
C6_PlaceholderLineNumbered ==
    (op.name = "number_tasks" /\ op.task_type = "code" /\ FreshCounters) =>
        LET ps == MarkerPlaces(pre.cells, task_default)
        IN  /\ task_count >= Len(ps)
            /\ \A j \in 1..Len(ps) :
                  \E k \in 1..task_count :
                      StartsWithAt(LineAt(data, ps[j]), 1, NumberedTask(k))
            /\ pre.cells = <<Code(<<task_default, Stmt>>)>> =>
                  /\ task_count = 1
                  /\ data[1].source = <<NumberedTask(1), Stmt>>

\* C6 amended: a line that carries the '<n>' token does not start with the
\* text number_tasks looks for ('#Code task#'), so it is left as it is and
\* is not counted: ['#Code task<n>#', 'print(1)'] ends with task_count = 0
\* and unchanged, while ['#Code task#', 'print(1)'] ends with task_count = 1
\* and line 0 equal to '#Code task 1#'.
C6_PlaceholderLineUntouched ==
    op.name = "number_tasks" =>
        LET ps == MarkerPlaces(pre.cells, task_default)
            ts == MarkerPlaces(pre.cells, TaskLine)
        IN  /\ \A j \in 1..Len(ps) : LineAt(data, ps[j]) = LineAt(pre.cells, ps[j])
            /\ op.task_type = "code" => task_count = pre.task_count + Len(ts)
            /\ (op.task_type = "code" /\ FreshCounters) =>
                  /\ pre.cells = <<Code(<<task_default, Stmt>>)>> =>
                        task_count = 0 /\ data = pre.cells
                  /\ pre.cells = <<Code(<<TaskLine, Stmt>>)>> =>
                        /\ task_count = 1
                        /\ data[1].source = <<NumberedTask(1), Stmt>>

\* C6 witness: number_tasks has run over ['#Code task<n>#', 'print(1)'].
C6_Witness ==
    /\ op.name = "number_tasks" /\ op.task_type = "code" /\ FreshCounters
    /\ pre.cells = <<Code(<<task_default, Stmt>>)>>
    /\ task_count = 0
    /\ data[1].source[1] = task_default

\* the counter of the category number_tasks was called with
CategoryCount(nb) ==
    IF op.task_type = "code" THEN nb.task_count ELSE nb.question_count

OtherCount(nb) ==
    IF op.task_type = "code" THEN nb.question_count ELSE nb.task_count

\* the number of places of ts before place q
CountBefore(ts, q) == Cardinality({ k \in 1..Len(ts) : Before(ts[k], q) })

\* C7: a line of a raw or code cell that starts with '#Code answer#' gets
\* the number of task lines matched before it in the scan, and no answer
\* line changes a counter: the category's counter grows by the number of
\* task lines only and the other counter stays.
C7_AnswerReadsCounter ==
    (op.name = "number_tasks" /\ op.task_type \in {"code", "question"}) =>
        LET ts == MarkerPlaces(pre.cells, TaskLine)
            an == MarkerPlaces(pre.cells, AnswerLine)
        IN  /\ \A j \in 1..Len(an) :
                  StartsWithAt(LineAt(data, an[j]), 1,
                               NumberedAnswer(CountBefore(ts, an[j])))
            /\ CategoryCount(Self) = CategoryCount(pre) + Len(ts)
            /\ OtherCount(Self) = OtherCount(pre)

\* C7 witness: an answer line between the first and the second task line
\* got number 1.
C7_Witness ==
    /\ op.name = "number_tasks" /\ op.task_type \in {"code", "question"}
    /\ LET ts == MarkerPlaces(pre.cells, TaskLine)
           an == MarkerPlaces(pre.cells, AnswerLine)
       IN  /\ Len(ts) = 2
           /\ \E j \in 1..Len(an) :
                 /\ Before(ts[1], an[j]) /\ Before(an[j], ts[2])
                 /\ StartsWithAt(LineAt(data, an[j]), 1, NumberedAnswer(1))
           /\ CategoryCount(Self) = 2

\* C19: in a run of number_tasks calls with the default templates every
\* call after the first changes no line of the document and leaves
\* task_count and question_count as the call before it left them.
C19_SecondPassNoOp ==
    (op.name = "number_tasks" /\ calls >= 2) =>
        /\ data = pre.cells
        /\ task_count = pre.task_count
        /\ question_count = pre.question_count

\* a second number_tasks call on a document in which the first numbered a
\* task line and an answer line
C19_Witness ==
    /\ op.name = "number_tasks" /\ calls = 2
    /\ pre.task_count >= 1
    /\ MarkerPlaces(data, NumberedTask(1)) # <<>>
    /\ MarkerPlaces(data, NumberedAnswer(1)) # <<>>
    /\ data = pre.cells
    /\ task_count = pre.task_count

InitTasks == InitWith(TaskCells)

NextTasks == \E task_type \in TaskTypes : NumberTasks(task_type)

SpecTasks == InitTasks /\ [][NextTasks]_vars

(***************************************************************************)
(* Properties of insert_contents.                                          *)
(***************************************************************************)
\* the places <<cell, line>> of the lines of markdown cells that match the
\* Contents-heading pattern, in document order
RECURSIVE ContentsPlacesFrom(_, _, _)
ContentsPlacesFrom(cells, ci, li) ==
    IF ci > Len(cells) THEN <<>>
    ELSE IF cells[ci].cell_type # "markdown" \/ li > Len(cells[ci].source)
         THEN ContentsPlacesFrom(cells, ci + 1, 1)
         ELSE (IF contents_match(cells[ci].source[li]) THEN << <<ci, li>> >> ELSE <<>>)
              \o ContentsPlacesFrom(cells, ci, li + 1)

ContentsPlaces(cells) == ContentsPlacesFrom(cells, 1, 1)

\* each entry of the list followed by '\n'
RECURSIVE EntriesWithNewline(_)
EntriesWithNewline(items) ==
    IF items = <<>> THEN <<>>
    ELSE << Head(items) \o <<"\n">> >> \o EntriesWithNewline(Tail(items))

\* the list the call inserts: the argument, or self.contents
Inserted == IF op.contents.given THEN op.contents.value ELSE pre.contents

\* C8: with overwrite=True the first markdown cell with a Contents heading
\* becomes the lines before the heading, the heading, a '\n' line and each
\* contents entry followed by '\n'; the lines after the heading are gone.
C8_OverwriteReplacesRest ==
    (op.name = "insert_contents" /\ op.overwrite) =>
        LET ps == ContentsPlaces(pre.cells)
        IN  ps # <<>> =>
              LET src == pre.cells[ps[1][1]].source
              IN  data[ps[1][1]].source
                    = SubSeq(src, 1, ps[1][2]) \o << <<"\n">> >>
                      \o EntriesWithNewline(Inserted)

\* C8 witness: ['# 1 Contents', 'old item 1', 'old item 2'] with contents
\* ['* [1 Intro](#1_Intro)'] became
\* ['# 1 Contents', '\n', '* [1 Intro](#1_Intro)\n'].
C8_Witness ==
    /\ op.name = "insert_contents" /\ op.overwrite
    /\ Len(pre.cells) >= 1
    /\ pre.cells[1] = Markdown(<<ContentsHeading, OldItem1, OldItem2>>)
    /\ Inserted = <<IntroEntry>>
    /\ data[1].source = <<ContentsHeading, <<"\n">>, IntroEntry \o <<"\n">> >>

\* C9: for either value of overwrite the list is inserted after the first
\* matching line only: the matched cell keeps its other lines as they were
\* (all of them with overwrite=False, those before the heading with
\* overwrite=True), no later matching line gets a list, and every other
\* cell is unchanged.
C9_FirstMatchOnly ==
    op.name = "insert_contents" =>
        LET ps == ContentsPlaces(pre.cells)
        IN  ps # <<>> =>
              LET ci  == ps[1][1]
                  li  == ps[1][2]
                  src == pre.cells[ci].source
                  upto == SubSeq(src, 1, li) \o << <<"\n">> >>
                          \o EntriesWithNewline(Inserted)
              IN  /\ data[ci].source =
                        IF op.overwrite THEN upto
                        ELSE upto \o << <<"\n">>, src[li] >>
                             \o SubSeq(src, li + 1, Len(src))
                  /\ Len(data) = Len(pre.cells)
                  /\ \A i \in 1..Len(data) : i # ci => data[i] = pre.cells[i]

\* optional white space, hashes, white space, no capital C, then 'Contents':
\* the word starts at p, the hashes end at b and are followed by white space
IsContentsHeading(line) ==
    \E p \in 3..(Len(line) - 7) :
        /\ SubSeq(line, p, p + 7) = <<"C", "o", "n", "t", "e", "n", "t", "s">>
        /\ \E b \in 1..(p - 2) :
              /\ line[b] = "#"
              /\ line[b + 1] \in WhiteSpace
              /\ \A i \in (b + 2)..(p - 1) : line[i] # "C"
              /\ \E a \in 0..(b - 1) :
                    /\ \A i \in 1..a : line[i] \in WhiteSpace
                    /\ \A i \in (a + 1)..b : line[i] = "#"

\* no line of a markdown cell is a Contents heading
NoContentsHeading(cells) ==
    \A i \in 1..Len(cells) :
        cells[i].cell_type = "markdown" =>
            \A k \in 1..Len(cells[i].source) : ~IsContentsHeading(cells[i].source[k])

\* C15: when no line of a markdown cell matches the Contents-heading
\* pattern, insert_contents leaves the document as it was, for either value
\* of overwrite and whether or not a contents list is passed.
C15_NoOpOnMiss ==
    (op.name = "insert_contents" /\ NoContentsHeading(pre.cells)) => data = pre.cells

\* a call with a list to insert on a document whose markdown cell names
\* 'Contents' in a heading the pattern does not match
C15_Witness ==
    /\ op.name = "insert_contents"
    /\ NoContentsHeading(pre.cells)
    /\ Inserted # <<>>
    /\ \E i \in 1..Len(pre.cells) :
          /\ pre.cells[i].cell_type = "markdown"
          /\ \E k \in 1..Len(pre.cells[i].source) :
                \E p \in 1..Len(pre.cells[i].source[k]) :
                    StartsWithAt(pre.cells[i].source[k], p, ContentsWord)
    /\ data = pre.cells

InitContents == InitWith(ContentsCells)

NextContents ==
    \/ \E arg \in ContentsArgs, overwrite \in BOOLEAN : InsertContents(arg, overwrite)
    \/ NumberHeadingsAll

SpecContents == InitContents /\ [][NextContents]_vars

(***************************************************************************)
(* Properties of student_version and teacher_version.                      *)
(***************************************************************************)
\* the number of cells without a line
EmptyCells(cells) == Cardinality({ i \in 1..Len(cells) : cells[i].source = <<>> })

\* C10: student_version and teacher_version return without an error on a
\* document that has cells with zero lines, of any type, and keep every
\* such cell in the view they return.
C10_EmptyBlocksNeverRaise ==
    op.name \in {"student_version", "teacher_version"} =>
        /\ raised = "none"
        /\ view.made
        /\ EmptyCells(view.nb.cells) = EmptyCells(pre.cells)

\* C11: student_version and teacher_version leave the Notebook they are
\* called on as it was (cells, counters, contents list), whether they return
\* or raise; no cell of the view is an object of the original, so
\* number_tasks on the original leaves the view as it was and number_tasks
\* on the view leaves the original as it was.
C11_ViewsLeaveOriginal ==
    /\ op.name \in {"student_version", "teacher_version"} => Self = pre
    /\ view.made => \A j \in 1..Len(view.obj) : view.obj[j] = 0
    /\ op.name = "number_tasks" => view = pre_view
    /\ op.name = "view.number_tasks" => Self = pre

\* a view that turned a raw cell of the original into a code cell and was
\* then renumbered, the original still holding the raw cell
C11_Witness ==
    /\ op.name = "view.number_tasks"
    /\ view.nb.cells # pre_view.nb.cells
    /\ Self = pre
    /\ \E i \in 1..Len(data), j \in 1..Len(view.nb.cells) :
          /\ data[i].cell_type = "raw"
          /\ pre_view.nb.cells[j] = raw_to_code(data[i])
          /\ view.nb.cells[j] # pre_view.nb.cells[j]

\* line starts with opening, then white space, then digits, then closing
StartsWithMarker(line, opening, closing) ==
    \E k \in 1..Len(line), m \in 0..Len(line) :
        /\ Len(opening) <= m /\ m <= k - Len(closing)
        /\ SubSeq(line, 1, Len(opening)) = opening
        /\ SubSeq(line, k - Len(closing) + 1, k) = closing
        /\ \A i \in (Len(opening) + 1)..m : line[i] \in WhiteSpace
        /\ \A i \in (m + 1)..(k - Len(closing)) : line[i] \in Digits

\* the part of the line StartsWithMarker finds
MarkerText(line, opening, closing) ==
    LET k == CHOOSE k \in 1..Len(line) :
                 /\ k >= Len(opening) + Len(closing)
                 /\ SubSeq(line, k - Len(closing) + 1, k) = closing
                 /\ StartsWithMarker(SubSeq(line, 1, k), opening, closing)
                 /\ \A i \in (Len(opening) + 1)..(k - Len(closing)) :
                        line[i] \in WhiteSpace \cup Digits
    IN  SubSeq(line, 1, k)

FirstLineStarts(cell, opening, closing) ==
    cell.source # <<>> /\ StartsWithMarker(cell.source[1], opening, closing)

AnswerMarkdown(cell) == FirstLineStarts(cell, <<"*", "*", "A", ":">>, <<"*", "*">>)

\* '#Code answer' and '#Code task', the openings of the markers of the claims
AnswerOpening == <<"#", "C", "o", "d", "e", " ", "a", "n", "s", "w", "e", "r">>

TaskOpening == <<"#", "C", "o", "d", "e", " ", "t", "a", "s", "k">>

AnswerOpen(cell) == FirstLineStarts(cell, AnswerOpening, <<"#">>)

TaskOpen(cell) == FirstLineStarts(cell, TaskOpening, <<"#">>)

\* the places of the cells a view keeps when it drops the cells in `dropped`,
\* in document order
KeptPlaces(cells, dropped) ==
    LET S == (1..Len(cells)) \ dropped
    IN  [j \in 1..Cardinality(S) |->
            CHOOSE i \in S : Cardinality({ k \in S : k < i }) = j - 1]

AnswerOpenPlaces(cells) ==
    { i \in 1..Len(cells) : cells[i].cell_type # "markdown" /\ AnswerOpen(cells[i]) }

TaskOpenPlaces(cells) ==
    { i \in 1..Len(cells) : cells[i].cell_type # "markdown" /\ TaskOpen(cells[i]) }

\* `out` is the learner view of `cells`
LearnerView(cells, out) ==
    LET kept == KeptPlaces(cells, AnswerOpenPlaces(cells))
    IN  /\ Len(out) = Len(kept)
        /\ \A j \in 1..Len(kept) :
              LET cell == cells[kept[j]]
              IN  IF cell.cell_type # "markdown" THEN out[j].source = cell.source
                  ELSE IF AnswerMarkdown(cell)
                  THEN out[j] =
                         [cell EXCEPT !.source =
                             << MarkerText(cell.source[1], <<"*", "*", "A", ":">>,
                                           <<"*", "*">>),
                                YourAnswerHere >>]
                  ELSE out[j] = cell

\* C12: student_version returns a view that keeps every markdown cell, with
\* the source of an answer markdown cell replaced by the marker text and
\* ' Your answer here' and every other markdown cell as it was, and that
\* drops exactly the raw and code cells whose first line starts with the
\* answer-opening marker.
C12_LearnerView ==
    op.name = "student_version" =>
        /\ raised = "none"
        /\ view.made
        /\ LearnerView(pre.cells, view.nb.cells)

\* the same for the calls that return
C12_LearnerViewWhenReturned ==
    (op.name = "student_version" /\ raised = "none") =>
        /\ view.made
        /\ LearnerView(pre.cells, view.nb.cells)

\* a returned learner view with an answer markdown cell rewritten and an
\* answer cell dropped
C12_ReturnedWitness ==
    /\ op.name = "student_version" /\ raised = "none"
    /\ \E i \in 1..Len(pre.cells) :
          pre.cells[i].cell_type = "markdown" /\ AnswerMarkdown(pre.cells[i])
    /\ AnswerOpenPlaces(pre.cells) # {}

\* `out` is the reference view of `cells`
ReferenceView(cells, out) ==
    LET kept == KeptPlaces(cells, TaskOpenPlaces(cells))
    IN  /\ Len(out) = Len(kept)
        /\ \A j \in 1..Len(kept) :
              LET cell == cells[kept[j]]
              IN  IF cell.cell_type = "markdown" THEN out[j] = cell
                  ELSE out[j].source = cell.source

\* C13: teacher_version returns a view that keeps every markdown cell equal
\* to the input cell and drops exactly the raw and code cells whose first
\* line starts with the task-opening marker; answer cells are kept.
C13_ReferenceView ==
    op.name = "teacher_version" =>
        /\ raised = "none"
        /\ view.made
        /\ ReferenceView(pre.cells, view.nb.cells)
        /\ \A i \in AnswerOpenPlaces(pre.cells) :
              \E j \in 1..Len(view.nb.cells) :
                  view.nb.cells[j].source = pre.cells[i].source

\* a reference view of a task cell and an answer cell: the first dropped,
\* the second kept
C13_Witness ==
    /\ op.name = "teacher_version"
    /\ Len(pre.cells) = 2
    /\ TaskOpenPlaces(pre.cells) = {1}
    /\ AnswerOpenPlaces(pre.cells) = {2}
    /\ Len(view.nb.cells) = 1
    /\ view.nb.cells[1].source = pre.cells[2].source

\* the strictly increasing maps from the places of `out` to those of `cells`
Embeddings(cells, out) ==
    { f \in [1..Len(out) -> 1..Len(cells)] :
        \A j, k \in 1..Len(out) : j < k => f[j] < f[k] }

\* view cell o is the original cell c, but for what the views write into a
\* cell: the type of a raw cell and the source of an answer markdown cell
ComesFrom(o, c) ==
    /\ IF c.cell_type = "raw"
       THEN o = [cell_type |-> "code", source |-> c.source,
                 outputs |-> <<>>, execution_count |-> "None"]
       ELSE o.cell_type = c.cell_type
    /\ \/ o.source = c.source
       \/ /\ c.cell_type = "markdown" /\ AnswerMarkdown(c)
          /\ Len(o.source) = 2 /\ o.source[2] = YourAnswerHere
    /\ c.cell_type = "code" =>
          o.outputs = c.outputs /\ o.execution_count = c.execution_count

\* C17: the cells of the view student_version or teacher_version returns
\* are cells of the original in the original's order, none added, repeated
\* or moved; none of them has type raw, and one that was raw in the original
\* has type code, outputs [] and execution_count None.
C17_OrderAndType ==
    (op.name \in {"student_version", "teacher_version"} /\ raised = "none") =>
        /\ view.made
        /\ \E f \in Embeddings(pre.cells, view.nb.cells) :
              \A j \in 1..Len(view.nb.cells) :
                  ComesFrom(view.nb.cells[j], pre.cells[f[j]])
        /\ \A j \in 1..Len(view.nb.cells) : view.nb.cells[j].cell_type # "raw"

\* a learner view of a raw task cell and an answer cell: the first kept as
\* a code cell, the second dropped
C17_Witness ==
    /\ op.name = "student_version" /\ raised = "none"
    /\ Len(pre.cells) = 2
    /\ pre.cells[1].cell_type = "raw" /\ pre.cells[1].source # <<>>
    /\ AnswerOpenPlaces(pre.cells) = {2}
    /\ Len(view.nb.cells) = 1
    /\ view.nb.cells[1].cell_type = "code"
    /\ view.nb.cells[1].source = pre.cells[1].source

\* the sources of the cells at the places of S, in document order
SourcesAt(cells, S) ==
    LET at == KeptPlaces(cells, (1..Len(cells)) \ S)
    IN  [j \in 1..Len(at) |-> cells[at[j]].source]

\* what the claim says of a learner view `out` of `cells`: no answer-open
\* cell, every task-open cell
LearnerKeepsTasks(cells, out) ==
    /\ AnswerOpenPlaces(out) = {}
    /\ SourcesAt(out, TaskOpenPlaces(out)) = SourcesAt(cells, TaskOpenPlaces(cells))

\* and of a reference view: no task-open cell, every answer-open cell
ReferenceKeepsAnswers(cells, out) ==
    /\ TaskOpenPlaces(out) = {}
    /\ SourcesAt(out, AnswerOpenPlaces(out)) = SourcesAt(cells, AnswerOpenPlaces(cells))

\* C18: number_tasks with the default templates leaves the task-open cells
\* task-open and the answer-open cells answer-open (and makes no other cell
\* one), so the views drop the same cells before and after it; of any such
\* document student_version returns a view with every task-open cell and
\* no answer-open cell, and teacher_version a view with every answer-open
\* cell and no task-open cell.
C18_NumberingThenViews ==
    /\ op.name = "number_tasks" =>
          /\ TaskOpenPlaces(data) = TaskOpenPlaces(pre.cells)
          /\ AnswerOpenPlaces(data) = AnswerOpenPlaces(pre.cells)
    /\ op.name = "student_version" =>
          /\ raised = "none"
          /\ view.made
          /\ LearnerKeepsTasks(pre.cells, view.nb.cells)
    /\ op.name = "teacher_version" =>
          /\ raised = "none"
          /\ view.made
          /\ ReferenceKeepsAnswers(pre.cells, view.nb.cells)

\* the same for the calls that return
C18_NumberingThenViewsWhenReturned ==
    /\ op.name = "number_tasks" =>
          /\ TaskOpenPlaces(data) = TaskOpenPlaces(pre.cells)
          /\ AnswerOpenPlaces(data) = AnswerOpenPlaces(pre.cells)
    /\ (op.name = "student_version" /\ raised = "none") =>
          view.made /\ LearnerKeepsTasks(pre.cells, view.nb.cells)
    /\ (op.name = "teacher_version" /\ raised = "none") =>
          view.made /\ ReferenceKeepsAnswers(pre.cells, view.nb.cells)

\* a learner view taken after number_tasks numbered a task line: the
\* numbered task cell is in the view, the answer cell is not
C18_ReturnedWitness ==
    /\ op.name = "student_version" /\ raised = "none"
    /\ pre.task_count > 0
    /\ Len(pre.cells) = 2
    /\ TaskOpenPlaces(pre.cells) # {} /\ AnswerOpenPlaces(pre.cells) # {}
    /\ Len(view.nb.cells) = 1
    /\ TaskOpenPlaces(view.nb.cells) = {1}

InitViews == InitWith(ViewCells)

NextViews ==
    \/ StudentVersion
    \/ TeacherVersion
    \/ \E task_type \in {"code", "question"} : NumberTasks(task_type)
    \/ ViewNumberTasks

SpecViews == InitViews /\ [][NextViews]_vars

(***************************************************************************)
(* The Notebook with every operation, on documents that mix the cells of   *)
(* the specifications above.                                               *)
(***************************************************************************)
MixedCells ==
    { Markdown(<<H2, H1>>), Markdown(<<ContentsHeading, OldItem1>>),
      Markdown(<<AnswerMd>>), Code(<<TaskLine, Stmt>>), Raw(<<AnswerLine>>) }

Init == InitWith(MixedCells)

Next ==
    \/ NumberHeadingsAll
    \/ \E source \in HeadingSources : NumberHeadings(source)
    \/ \E arg \in ContentsArgs, overwrite \in BOOLEAN : InsertContents(arg, overwrite)
    \/ \E task_type \in TaskTypes : NumberTasks(task_type)
    \/ StudentVersion
    \/ TeacherVersion

Spec == Init /\ [][Next]_vars

\* the sources of the markdown cells, one after the other
RECURSIVE MarkdownLines(_)
MarkdownLines(cells) ==
    IF cells = <<>> THEN <<>>
    ELSE (IF Head(cells).cell_type = "markdown" THEN Head(cells).source ELSE <<>>)
         \o MarkdownLines(Tail(cells))

\* one number_headings call on all lines of the markdown cells of the
\* Notebook as it was before the last call
OneCall ==
    number_headings([cells |-> pre.cells, head_count |-> pre.head_count,
                     contents |-> pre.contents, output |-> <<>>, trace |-> <<>>],
                    MarkdownLines(pre.cells), 0)

\* C16: number_headings_all writes the lines, appends the TOC entries and
\* leaves the counter that one number_headings call on the concatenated
\* sources of the markdown cells gives; insert_contents, number_tasks,
\* student_version and teacher_version leave head_count as it was.
C16_CounterCarried ==
    /\ op.name = "number_headings_all" =>
          /\ MarkdownLines(data) = OneCall.output
          /\ contents = OneCall.contents
          /\ head_count = OneCall.head_count
    /\ op.name \in {"insert_contents", "number_tasks", "student_version",
                    "teacher_version"} => head_count = pre.head_count

\* a pass over two markdown cells with headings, the counter going on in
\* the second cell from where the first left it
C16_Witness ==
    /\ op.name = "number_headings_all"
    /\ Len(data) = 2
    /\ \A i \in 1..2 : data[i].cell_type = "markdown" /\ HeadingPlaces(<<pre.cells[i]>>) # <<>>
    /\ pre.head_count = <<num_start_at - 1>>
    /\ head_count[1] >= 2
    /\ NumberOf(data[2].source[1]) = Str(head_count[1])


====
